---- MODULE Spec2Model ----
(***************************************************************************)
(* Closed unitigs of a compacted de Bruijn graph (closed-unitigs).         *)
(*                                                                         *)
(* The model follows src/src/utils.rs (nucleotide algebra),                *)
(* src/src/unitig.rs (Unitig: strand-insensitive equality, literal         *)
(* containment, overlap concatenation) and src/src/graph.rs (graph         *)
(* construction, memoized support, closure, shrink, close).                *)
(*                                                                         *)
(* A unitig is a sequence of the one-letter strings "A", "C", "G", "T".    *)
(* Node indices are 1-based here (0-based in the source); the record index *)
(* of a link keeps the 0-based value written in the input.                 *)
(***************************************************************************)
EXTENDS Integers, Sequences, FiniteSets

VARIABLES
  input,      \* the records read by Graph::from
  k,          \* Graph.k
  nodes,      \* Graph.nodes
  supp,       \* close: the support memo (HashMap<Unitig, u32>)
  is_closed,  \* close: HashMap<Unitig, bool>
  n_closed,   \* close: progress counter
  closed,     \* close: HashMap<Unitig, u32> of the results
  seed,       \* close: index of the node the main loop is at
  m,          \* closure: the unitig being grown
  first,      \* closure: (node, direction) of the left end
  last,       \* closure: (node, direction) of the right end
  my_supp,    \* closure / supp: the support last computed
  joined,     \* closure: the nodes joined so far, seed included (history)
  ret,        \* the last return of closure and of shrink, and how many (history)
  order,      \* close: the sorted vector being written
  fasta,      \* the sequence sink
  counts,     \* the counts sink
  pc,         \* position of the program
  panic       \* why the program panicked, "none" if it has not

vars == <<input, k, nodes, supp, is_closed, n_closed, closed, seed, m, first,
          last, my_supp, joined, ret, order, fasta, counts, pc, panic>>

\* ------------------------------------------------------------------------
\* utils.rs: the nucleotide algebra

\* Byte order of the four letters, as str comparison sees them.
Rank(n) ==
  CASE n = "A" -> 1
    [] n = "C" -> 2
    [] n = "G" -> 3
    [] n = "T" -> 4

complement(nucleo) ==
  CASE nucleo = "A" -> "T"
    [] nucleo = "C" -> "G"
    [] nucleo = "G" -> "C"
    [] nucleo = "T" -> "A"

rev_compl(seq) ==
  [i \in 1..Len(seq) |-> complement(seq[Len(seq) + 1 - i])]

Min2(a, b) == IF a <= b THEN a ELSE b

\* a < b for strings (lexicographic, a proper prefix is smaller).
LexLess(a, b) ==
  \/ \E i \in 1..Min2(Len(a), Len(b)) :
       /\ Rank(a[i]) < Rank(b[i])
       /\ \A j \in 1..(i - 1) : a[j] = b[j]
  \/ /\ Len(a) < Len(b)
     /\ \A j \in 1..Len(a) : a[j] = b[j]

norm(seq) ==
  IF LexLess(rev_compl(seq), seq) THEN rev_compl(seq) ELSE seq

\* ------------------------------------------------------------------------
\* unitig.rs: Unitig

\* Literal substring test on the raw strings.
contains(x, y) ==
  \E i \in 1..(Len(x) - Len(y) + 1) : SubSeq(x, i, i + Len(y) - 1) = y

\* What Eq and Hash see of a unitig: its normal form.
UnitigKey(u) == norm(u)

UnitigEq(a, b) == UnitigKey(a) = UnitigKey(b)

Common(a, b) == Min2(Len(a), Len(b)) - 1

\* The assertion of Add: the tail of a is the head of b.
Joinable_Unchecked(a, b) == TRUE

Joinable(a, b) ==
  SubSeq(a, Len(a) - Common(a, b) + 1, Len(a)) = SubSeq(b, 1, Common(a, b))

\* The value of a + b when the assertion passes.
Add(a, b) == a \o SubSeq(b, Common(a, b) + 1, Len(b))

\* ------------------------------------------------------------------------
\* HashMap<Unitig, V>: a function on the keys' normal forms

EmptyMap == [x \in {} |-> 0]

MapHas(map, u) == UnitigKey(u) \in DOMAIN map

MapGet(map, u) == map[UnitigKey(u)]

MapInsert(map, u, v) ==
  [x \in DOMAIN map \cup {UnitigKey(u)} |->
     IF x = UnitigKey(u) THEN v ELSE map[x]]

\* ------------------------------------------------------------------------
\* graph.rs: construction of the graph from the records (Graph::from)
\*
\* A record is [seq, ab, links]: the sequence line, the ab:Z: vector and the
\* L:s:t:e tokens of its header, each link [s, t, e] with s, e TRUE for '+'
\* and t the 0-based index of the target record.

Edge(to, start, end) == [to |-> to, start |-> start, end |-> end]

\* Node::new, before any edge is stored.
NewNode(kmer, count) ==
  [kmer |-> kmer, complement |-> rev_compl(kmer), count |-> count,
   out |-> <<>>, into |-> <<>>]

\* graph.k, set from the first record.
InferK(recs) == Len(recs[1].seq) - Len(recs[1].ab) + 1

\* Number of nodes appended by the records before record r.
RECURSIVE NodesBefore(_, _)
NodesBefore(recs, r) ==
  IF r = 1 THEN 0 ELSE NodesBefore(recs, r - 1) + Len(recs[r - 1].ab)

\* The (first, last) node indices of record r, as pushed on `nodes`.
RecRange(recs, r) ==
  [first |-> NodesBefore(recs, r) + 1,
   last  |-> NodesBefore(recs, r) + Len(recs[r].ab)]

\* The record holding node n.
RecOf(recs, n) ==
  CHOOSE r \in 1..Len(recs) :
    RecRange(recs, r).first <= n /\ n <= RecRange(recs, r).last

\* Node n after its record has been read: its k-mer, its count and the
\* edges between the k-mers of the record, in the order they are pushed.
ChainedNode(recs, kk, n) ==
  LET r  == RecOf(recs, n)
      rg == RecRange(recs, r)
      i  == n - rg.first
  IN  [NewNode(SubSeq(recs[r].seq, i + 1, i + kk), recs[r].ab[i + 1]) EXCEPT
         !.out  = (IF n < rg.last THEN <<Edge(n + 1, TRUE, TRUE)>> ELSE <<>>)
                  \o (IF n > rg.first THEN <<Edge(n - 1, FALSE, FALSE)>> ELSE <<>>),
         !.into = (IF n < rg.last THEN <<Edge(n + 1, FALSE, FALSE)>> ELSE <<>>)
                  \o (IF n > rg.first THEN <<Edge(n - 1, TRUE, TRUE)>> ELSE <<>>)]

\* The pending edges vector: the links of the records, in reading order.
RECURSIVE PendingEdges(_, _)
PendingEdges(recs, r) ==
  IF r > Len(recs) THEN <<>>
  ELSE [j \in 1..Len(recs[r].links) |->
          [from  |-> r, start |-> recs[r].links[j].s,
           to    |-> recs[r].links[j].t + 1, end |-> recs[r].links[j].e]]
       \o PendingEdges(recs, r + 1)

\* "check direction": the node a link leaves from and the node it enters.
LinkFrom(rg, start) == IF start THEN rg.last ELSE rg.first

LinkTo_Swapped(rg, end) == IF end THEN rg.last ELSE rg.first

LinkTo(rg, end) == IF end THEN rg.first ELSE rg.last

\* "Store edges": the pending edges j.. stored on the nodes ns.
RECURSIVE StoreEdges(_, _, _, _)
StoreEdges(recs, ns, edges, j) ==
  IF j > Len(edges) THEN ns
  ELSE LET e    == edges[j]
           from == LinkFrom(RecRange(recs, e.from), e.start)
           to   == LinkTo(RecRange(recs, e.to), e.end)
           ns1  == [ns EXCEPT ![from].out =
                      Append(@, Edge(to, e.start, e.end))]
           ns2  == [ns1 EXCEPT ![to].into =
                      Append(@, Edge(from, e.end, e.start))]
       IN  IF from = to
           THEN StoreEdges(recs, ns, edges, j + 1)
           ELSE StoreEdges(recs, ns2, edges, j + 1)

BuildGraph(recs) ==
  LET kk == InferK(recs)
      n  == NodesBefore(recs, Len(recs) + 1)
  IN  StoreEdges(recs, [i \in 1..n |-> ChainedNode(recs, kk, i)],
                 PendingEdges(recs, 1), 1)

\* ------------------------------------------------------------------------
\* graph.rs: Graph::supp, the memoized support

\* The two builds of the program: with and without overflow checks.
Builds == {"debug", "release"}

\* The length-kk substrings of u, left to right.
Windows(u, kk) == [i \in 1..(Len(u) - kk + 1) |-> SubSeq(u, i, i + kk - 1)]

\* supp.get(&u).unwrap_or(&0)
WindowCount(memo, w) == IF MapHas(memo, w) THEN MapGet(memo, w) ELSE 0

MaxOf(vals) == CHOOSE x \in vals : \A y \in vals : y <= x

MinOf(vals) == CHOOSE x \in vals : \A y \in vals : x <= y

\* .min().unwrap_or(&0) over the windows' counts
SuppMin(u, kk, memo) ==
  LET vals == {WindowCount(memo, Windows(u, kk)[i]) :
                 i \in 1..(Len(u) - kk + 1)}
  IN  IF vals = {} THEN 0 ELSE MinOf(vals)

\* One call supp(u, kk, memo) under a build: whether it panics, the value
\* returned and the memo afterwards.  u.len()-k+1 is computed on usize: when
\* u.len() < k the subtraction overflows, which panics under overflow checks
\* and wraps without them; the wrapped bound is 0 when u.len() = k-1 (an
\* empty range) and above 2^63 otherwise, where slicing the first window
\* panics.
Supp(u, kk, memo, build) ==
  IF MapHas(memo, u)
  THEN [panic |-> FALSE, s |-> MapGet(memo, u), memo |-> memo]
  ELSE IF Len(u) < kk /\ (build = "debug" \/ Len(u) < kk - 1)
  THEN [panic |-> TRUE, s |-> 0, memo |-> memo]
  ELSE [panic |-> FALSE, s |-> SuppMin(u, kk, memo),
        memo |-> MapInsert(memo, u, SuppMin(u, kk, memo))]

SuppOutcomes(u, kk, memo) == {Supp(u, kk, memo, b) : b \in Builds}

\* ------------------------------------------------------------------------
\* graph.rs: Graph::closure, one scan of an edge list

\* "avoid loops"
Visited_Never(mm, node) == FALSE

Visited(mm, node) == contains(mm, node.kmer) \/ contains(mm, node.complement)

\* The support does not decrease across the edge.
Qualifies_Strict(c, s) == c > s

Qualifies(c, s) == c >= s

\* "The closed unitig we are building is valid also for this k-mer"
Subsumed_Loose(c, s) == c >= s

Subsumed(c, s) == c = s

\* Index of the first edge from position j on that the for loop extends
\* through, 0 when the loop runs to its end.
RECURSIVE Scan(_, _, _, _, _, _)
Scan(ns, edges, j, dir, mm, s) ==
  IF j > Len(edges) THEN 0
  ELSE IF edges[j].start # dir THEN Scan(ns, edges, j + 1, dir, mm, s)
  ELSE IF Visited(mm, ns[edges[j].to]) THEN Scan(ns, edges, j + 1, dir, mm, s)
  ELSE IF Qualifies(ns[edges[j].to].count, s) THEN j
  ELSE Scan(ns, edges, j + 1, dir, mm, s)

\* The k-mer an edge joins: the target's k-mer on the strand it is entered.
JoiningKmer(ns, e) == IF e.end THEN ns[e.to].kmer ELSE ns[e.to].complement

\* ------------------------------------------------------------------------
\* graph.rs: Graph::shrink

\* Left extremity after "Try shrink on left", -1 when a lookup panics.
RECURSIVE ShrinkLeft(_, _, _, _, _, _)
ShrinkLeft(u, kk, memo, s, a, b) ==
  IF ~(a + kk < b) THEN a
  ELSE IF ~MapHas(memo, SubSeq(u, a + 1, a + kk)) THEN -1
  ELSE IF MapGet(memo, SubSeq(u, a + 1, a + kk)) > s
       THEN ShrinkLeft(u, kk, memo, s, a + 1, b)
       ELSE a

\* Right extremity after "Try shrink on right", -1 when a lookup panics.
RECURSIVE ShrinkRight(_, _, _, _, _)
ShrinkRight(u, kk, memo, s, b) ==
  IF ~(b >= kk) THEN b
  ELSE IF ~MapHas(memo, SubSeq(u, b - kk + 1, b)) THEN -1
  ELSE IF MapGet(memo, SubSeq(u, b - kk + 1, b)) > s
       THEN ShrinkRight(u, kk, memo, s, b - 1)
       ELSE b

Shrink_NoTrim(u, kk, memo) ==
  IF ~MapHas(memo, u) THEN [panic |-> TRUE, u |-> <<>>, c |-> 0]
  ELSE [panic |-> FALSE, u |-> u, c |-> MapGet(memo, u)]

\* shrink(u, kk, memo): whether it panics, and the pair it returns.
Shrink(u, kk, memo) ==
  IF ~MapHas(memo, u) THEN [panic |-> TRUE, u |-> <<>>, c |-> 0]
  ELSE LET s == MapGet(memo, u)
           a == ShrinkLeft(u, kk, memo, s, 0, Len(u))
           b == ShrinkRight(u, kk, memo, s, Len(u))
       IN  IF a < 0 \/ b < 0 \/ a > b
           THEN [panic |-> TRUE, u |-> <<>>, c |-> 0]
           ELSE [panic |-> FALSE, u |-> SubSeq(u, a + 1, b), c |-> s]

\* ------------------------------------------------------------------------
\* graph.rs: Graph::close, the table of results and the sorted vector
\*
\* `closed` is kept as the list of its (key, value) entries; the order of the
\* list is not the order of iteration, which SortedOrders leaves open.

\* A vector of results instead of a map: every result is pushed.
ClosedInsert_Push(entries, u, c) == Append(entries, [u |-> u, c |-> c])

\* closed.insert(u, c): an equal key keeps its entry and takes the new value.
ClosedInsert(entries, u, c) ==
  IF \E i \in 1..Len(entries) : UnitigEq(entries[i].u, u)
  THEN [i \in 1..Len(entries) |->
          IF UnitigEq(entries[i].u, u) THEN [entries[i] EXCEPT !.c = c]
          ELSE entries[i]]
  ELSE Append(entries, [u |-> u, c |-> c])

Orderings(n) ==
  {p \in [1..n -> 1..n] : \A i, j \in 1..n : i # j => p[i] # p[j]}

SortedOrders_Unsorted(entries) ==
  {[i \in 1..Len(entries) |-> entries[p[i]]] : p \in Orderings(Len(entries))}

\* closed.iter().collect() in any iteration order, then the stable
\* sort_by_key on the count: every ordering whose counts do not decrease.
SortedOrders(entries) ==
  {o \in SortedOrders_Unsorted(entries) :
     \A i \in 1..(Len(o) - 1) : o[i].c <= o[i + 1].c}

\* ------------------------------------------------------------------------
\* The program: Graph::from, then Graph::close

NoRet ==
  [valid |-> FALSE, m |-> <<>>, first |-> <<0, TRUE>>, last |-> <<0, TRUE>>,
   s |-> 0, u |-> <<>>, c |-> 0, n |-> 0]

\* The state main is in once Graph::from has returned the graph of recs.
Built(recs) ==
  /\ input = recs
  /\ k = InferK(recs)
  /\ nodes = BuildGraph(recs)
  /\ supp = EmptyMap
  /\ is_closed = EmptyMap
  /\ n_closed = 0
  /\ closed = <<>>
  /\ seed = 0
  /\ m = <<>>
  /\ first = <<0, TRUE>>
  /\ last = <<0, TRUE>>
  /\ my_supp = 0
  /\ joined = <<>>
  /\ ret = NoRet
  /\ order = <<>>
  /\ fasta = <<>>
  /\ counts = <<>>
  /\ pc = "close"
  /\ panic = "none"

\* The tables after "Compute k-mers supports": the nodes 1..n inserted in order.
RECURSIVE SeededSupp(_, _)
SeededSupp(ns, n) ==
  IF n = 0 THEN EmptyMap
  ELSE MapInsert(SeededSupp(ns, n - 1), ns[n].kmer, ns[n].count)

RECURSIVE SeededClosed(_, _)
SeededClosed(ns, n) ==
  IF n = 0 THEN EmptyMap
  ELSE MapInsert(SeededClosed(ns, n - 1), ns[n].kmer, FALSE)

\* close: the maps are created and seeded from the nodes.
CloseBegin ==
  /\ pc = "close"
  /\ supp' = SeededSupp(nodes, Len(nodes))
  /\ is_closed' = SeededClosed(nodes, Len(nodes))
  /\ n_closed' = 0
  /\ closed' = <<>>
  /\ seed' = 1
  /\ pc' = "seed"
  /\ UNCHANGED <<input, k, nodes, m, first, last, my_supp, joined, ret,
                 order, fasta, counts, panic>>

\* "Close and shrink all k-mers": a node already closed is skipped.
SkipSeed ==
  /\ pc = "seed"
  /\ seed <= Len(nodes)
  /\ MapHas(is_closed, nodes[seed].kmer)
  /\ MapGet(is_closed, nodes[seed].kmer)
  /\ seed' = seed + 1
  /\ UNCHANGED <<input, k, nodes, supp, is_closed, n_closed, closed, m,
                 first, last, my_supp, joined, ret, order, fasta, counts,
                 pc, panic>>

\* The call closure(&node.kmer, (&node, true), (&node, true), ...).
StartClosure ==
  /\ pc = "seed"
  /\ seed <= Len(nodes)
  /\ MapHas(is_closed, nodes[seed].kmer)
  /\ ~MapGet(is_closed, nodes[seed].kmer)
  /\ m' = nodes[seed].kmer
  /\ first' = <<seed, TRUE>>
  /\ last' = <<seed, TRUE>>
  /\ joined' = <<seed>>
  /\ pc' = "clo"
  /\ UNCHANGED <<input, k, nodes, supp, is_closed, n_closed, closed, seed,
                 my_supp, ret, order, fasta, counts, panic>>

\* One iteration of 'clo that takes an edge of last.0.out (or in which the
\* support cannot be computed).
ExtendRight ==
  /\ pc = "clo"
  /\ \E o \in SuppOutcomes(m, k, supp) :
       LET j == Scan(nodes, nodes[last[1]].out, 1, last[2], m, o.s)
           e == nodes[last[1]].out[j]
           kmer == JoiningKmer(nodes, e)
           c == nodes[e.to].count
       IN  IF o.panic
           THEN /\ pc' = "panic"
                /\ panic' = "supp"
                /\ UNCHANGED <<supp, my_supp, is_closed, n_closed, m, last,
                               joined>>
           ELSE /\ j # 0
                /\ supp' = o.memo
                /\ my_supp' = o.s
                /\ is_closed' = IF Subsumed(c, o.s)
                                THEN MapInsert(is_closed, kmer, TRUE)
                                ELSE is_closed
                /\ n_closed' = IF Subsumed(c, o.s) THEN n_closed + 1
                               ELSE n_closed
                /\ IF Joinable(m, kmer)
                   THEN /\ m' = Add(m, kmer)
                        /\ last' = <<e.to, e.end>>
                        /\ joined' = Append(joined, e.to)
                        /\ UNCHANGED <<pc, panic>>
                   ELSE /\ pc' = "panic"
                        /\ panic' = "concat"
                        /\ UNCHANGED <<m, last, joined>>
  /\ UNCHANGED <<input, k, nodes, closed, seed, first, ret, order, fasta,
                 counts>>

\* One iteration of 'clo that takes no edge of last.0.out and takes an edge
\* of first.0.into.
ExtendLeft ==
  /\ pc = "clo"
  /\ \E o \in SuppOutcomes(m, k, supp) :
       LET j == Scan(nodes, nodes[first[1]].into, 1, first[2], m, o.s)
           e == nodes[first[1]].into[j]
           kmer == JoiningKmer(nodes, e)
           c == nodes[e.to].count
       IN  /\ ~o.panic
           /\ Scan(nodes, nodes[last[1]].out, 1, last[2], m, o.s) = 0
           /\ j # 0
           /\ supp' = o.memo
           /\ my_supp' = o.s
           /\ is_closed' = IF Subsumed(c, o.s)
                           THEN MapInsert(is_closed, kmer, TRUE)
                           ELSE is_closed
           /\ n_closed' = IF Subsumed(c, o.s) THEN n_closed + 1 ELSE n_closed
           /\ IF Joinable(kmer, m)
              THEN /\ m' = Add(kmer, m)
                   /\ first' = <<e.to, e.end>>
                   /\ joined' = Append(joined, e.to)
                   /\ UNCHANGED <<pc, panic>>
              ELSE /\ pc' = "panic"
                   /\ panic' = "concat"
                   /\ UNCHANGED <<m, first, joined>>
  /\ UNCHANGED <<input, k, nodes, closed, seed, last, ret, order, fasta,
                 counts>>

\* The iteration of 'clo that breaks: closure marks m and returns it, close
\* shrinks it and inserts the result.
ClosureReturn ==
  /\ pc = "clo"
  /\ \E o \in SuppOutcomes(m, k, supp) :
       LET sh == Shrink(m, k, o.memo)
       IN  /\ ~o.panic
           /\ Scan(nodes, nodes[last[1]].out, 1, last[2], m, o.s) = 0
           /\ Scan(nodes, nodes[first[1]].into, 1, first[2], m, o.s) = 0
           /\ supp' = o.memo
           /\ my_supp' = o.s
           /\ is_closed' = MapInsert(is_closed, m, TRUE)
           /\ n_closed' = n_closed + 1
           /\ IF sh.panic
              THEN /\ pc' = "panic"
                   /\ panic' = "shrink"
                   /\ UNCHANGED <<closed, seed, ret>>
              ELSE /\ closed' = ClosedInsert(closed, sh.u, sh.c)
                   /\ ret' = [valid |-> TRUE, m |-> m, first |-> first,
                              last |-> last, s |-> o.s, u |-> sh.u,
                              c |-> sh.c, n |-> ret.n + 1]
                   /\ seed' = seed + 1
                   /\ pc' = "seed"
                   /\ UNCHANGED panic
  /\ UNCHANGED <<input, k, nodes, m, first, last, joined, order, fasta,
                 counts>>

\* The header line of a sequence, as a line of characters.
Header == <<">">>

\* closed.iter().collect() and sort_by_key
Sort ==
  /\ pc = "seed"
  /\ seed > Len(nodes)
  /\ order' \in SortedOrders(closed)
  /\ pc' = IF closed = <<>> THEN "done" ELSE "emit"
  /\ UNCHANGED <<input, k, nodes, supp, is_closed, n_closed, closed, seed, m,
                 first, last, my_supp, joined, ret, fasta, counts, panic>>

\* One iteration of the writing loop: a header and a sequence line on the
\* sequence sink, a line on the counts sink.
Emit ==
  /\ pc = "emit"
  /\ Len(counts) < Len(order)
  /\ fasta' = fasta \o <<Header, order[Len(counts) + 1].u>>
  /\ counts' = Append(counts, order[Len(counts) + 1].c)
  /\ pc' = IF Len(counts) + 1 = Len(order) THEN "done" ELSE "emit"
  /\ UNCHANGED <<input, k, nodes, supp, is_closed, n_closed, closed, seed, m,
                 first, last, my_supp, joined, ret, order, panic>>

Next ==
  \/ CloseBegin
  \/ SkipSeed
  \/ StartClosure
  \/ ExtendRight
  \/ ExtendLeft
  \/ ClosureReturn
  \/ Sort
  \/ Emit

\* ------------------------------------------------------------------------
\* The inputs
\*
\* Every record carries a sequence of length |ab| + k - 1 and at least one
\* count, and every link names a record of the file: the inputs Graph::from
\* reads to its end.

MaxCount == 2     \* counts of the family are 1..MaxCount
MaxNodes == 3     \* k-mers per input of the family
MaxRecords == 2   \* records per input of the family
MaxLinks == 1     \* links per input of the family

\* The family: files of up to MaxRecords records over FamilyBases (closed
\* under complement) and files of one record over WideBases, with these
\* k-mer lengths.
FamilyBases == {"A", "T"}

WideBases == {"A", "C", "G", "T"}

FamilyKs == {2}

SeqsOver(B, n) == [1..n -> B]

\* The records of 1..most k-mers, without their links.
BareRecords(B, kk, most) ==
  UNION {{[seq |-> sq, ab |-> a] :
            sq \in SeqsOver(B, n + kk - 1), a \in [1..n -> 1..MaxCount]} :
         n \in 1..most}

RECURSIVE TotalAb(_, _)
TotalAb(bare, n) == IF n = 0 THEN 0 ELSE TotalAb(bare, n - 1) + Len(bare[n].ab)

\* The files of n records holding at most MaxNodes k-mers.
BareInputs(B, kk, n) ==
  {b \in [1..n -> BareRecords(B, kk, MaxNodes - (n - 1))] :
     TotalAb(b, n) <= MaxNodes}

LinkSlots(n) ==
  {[from |-> r, s |-> s, t |-> t, e |-> e] :
     r \in 1..n, s \in BOOLEAN, t \in 0..(n - 1), e \in BOOLEAN}

LinkLists(n) == UNION {[1..l -> LinkSlots(n)] : l \in 0..MaxLinks}

LinksOf(ll, r) ==
  LET mine == SelectSeq(ll, LAMBDA x : x.from = r)
  IN  [j \in 1..Len(mine) |-> [s |-> mine[j].s, t |-> mine[j].t, e |-> mine[j].e]]

Attach(bare, ll) ==
  [r \in 1..Len(bare) |->
     [seq |-> bare[r].seq, ab |-> bare[r].ab, links |-> LinksOf(ll, r)]]

\* The end-to-end scenarios.
ScenarioA == <<[seq |-> <<"A", "C", "G", "T", "A">>, ab |-> <<5>>, links |-> <<>>]>>

ScenarioB ==
  <<[seq |-> <<"A", "C", "G", "T", "A", "C">>, ab |-> <<3, 3, 3>>, links |-> <<>>]>>

ScenarioC ==
  <<[seq |-> <<"A", "C", "G", "T", "A", "C">>, ab |-> <<5, 2, 5>>, links |-> <<>>]>>

ScenarioD ==
  <<[seq |-> <<"C", "G", "T">>, ab |-> <<4>>, links |-> <<>>],
    [seq |-> <<"A", "C", "G">>, ab |-> <<4>>, links |-> <<>>]>>

ScenarioE ==
  <<[seq |-> <<"A", "C", "G", "T", "A">>, ab |-> <<7>>,
     links |-> <<[s |-> TRUE, t |-> 1, e |-> TRUE]>>],
    [seq |-> <<"G", "T", "A", "C", "G">>, ab |-> <<7>>, links |-> <<>>]>>

ScenarioF ==
  <<[seq |-> <<"A", "C", "G", "G", "T">>, ab |-> <<9, 3, 9>>, links |-> <<>>]>>

Scenarios ==
  {ScenarioA, ScenarioB, ScenarioC, ScenarioD, ScenarioE, ScenarioF}

Init ==
  \/ \E recs \in Scenarios : Built(recs)
  \/ \E kk \in FamilyKs, n \in 1..MaxRecords :
       \E b \in BareInputs(FamilyBases, kk, n), ll \in LinkLists(n) :
         Built(Attach(b, ll))
  \/ \E kk \in FamilyKs :
       \E b \in BareInputs(WideBases, kk, 1), ll \in LinkLists(1) :
         Built(Attach(b, ll))

Spec == Init /\ [][Next]_vars

\* ------------------------------------------------------------------------
\* Graph::supp on its own: one call on arguments drawn from bounded sets

MaxSuppLen == 3   \* length of the unitig passed to supp
MaxSuppK == 3     \* k passed to supp

\* The memo tables over the k-mers of length kk: any of them may be missing.
Memos(kk) ==
  LET keys == {UnitigKey(w) : w \in SeqsOver(FamilyBases, kk)}
  IN  UNION {[d -> 1..MaxCount] : d \in SUBSET keys}

SuppInit ==
  /\ \E kk \in 1..MaxSuppK, len \in 0..MaxSuppLen :
       \E u \in SeqsOver(FamilyBases, len), memo \in Memos(kk) :
         /\ input = [u |-> u, kk |-> kk, memo |-> memo]
         /\ k = kk
         /\ m = u
         /\ supp = memo
  /\ nodes = <<>>
  /\ is_closed = EmptyMap
  /\ n_closed = 0
  /\ closed = <<>>
  /\ seed = 0
  /\ first = <<0, TRUE>>
  /\ last = <<0, TRUE>>
  /\ my_supp = 0
  /\ joined = <<>>
  /\ ret = NoRet
  /\ order = <<>>
  /\ fasta = <<>>
  /\ counts = <<>>
  /\ pc = "supp"
  /\ panic = "none"

\* The call supp(&m, k, &mut supp), under either build.
SuppCall ==
  /\ pc = "supp"
  /\ \E o \in SuppOutcomes(m, k, supp) :
       /\ my_supp' = o.s
       /\ supp' = o.memo
       /\ pc' = IF o.panic THEN "panic" ELSE "ret"
       /\ panic' = IF o.panic THEN "supp" ELSE "none"
  /\ UNCHANGED <<input, k, nodes, is_closed, n_closed, closed, seed, m,
                 first, last, joined, ret, order, fasta, counts>>

SuppSpec == SuppInit /\ [][SuppCall]_vars

\* ------------------------------------------------------------------------
\* Vocabulary of the properties

\* A record's sequence on the strand a link takes it.
Orient(sq, d) == IF d THEN sq ELSE rev_compl(sq)

\* The two record ends a link joins overlap by k-1 nucleotides.
LinkOverlaps(recs, r, lk) ==
  LET kk == InferK(recs)
      a  == Orient(recs[r].seq, lk.s)
      b  == Orient(recs[lk.t + 1].seq, lk.e)
  IN  SubSeq(a, Len(a) - kk + 2, Len(a)) = SubSeq(b, 1, kk - 1)

WellFormed(recs) ==
  \A r \in 1..Len(recs) : \A j \in 1..Len(recs[r].links) :
    LinkOverlaps(recs, r, recs[r].links[j])

HasLink(recs) == \E r \in 1..Len(recs) : recs[r].links # <<>>

DistinctCanon(ns) ==
  \A i, j \in 1..Len(ns) : i # j => norm(ns[i].kmer) # norm(ns[j].kmer)

\* The counts of the nodes whose k-mer is w on one of the two strands.
KmerCounts(ns, w) ==
  {ns[i].count : i \in {n \in 1..Len(ns) : norm(ns[n].kmer) = norm(w)}}

\* The j-th unitig on the sequence sink.
EmittedSeq(j) == fasta[2 * j]

NoDuplicates(sq) == \A i, j \in 1..Len(sq) : i # j => sq[i] # sq[j]

\* ------------------------------------------------------------------------
\* The properties

\* C1: on well-formed input with pairwise distinct canonical k-mers, every
\* length-k substring of an emitted unitig has a node count >= the count
\* emitted with it, and at least one has exactly that count.
C1_ClosureUniformity ==
  (pc \in {"emit", "done"} /\ WellFormed(input) /\ DistinctCanon(nodes)) =>
    \A j \in 1..Len(counts) :
      LET u == EmittedSeq(j)
          w == Windows(u, k)
      IN  /\ \A i \in 1..Len(w) :
                /\ KmerCounts(nodes, w[i]) # {}
                /\ \A x \in KmerCounts(nodes, w[i]) : x >= counts[j]
          /\ \E i \in 1..Len(w) : counts[j] \in KmerCounts(nodes, w[i])

\* C1 witness: a unitig crossing a k-mer of higher count has been emitted.
C1_Witness ==
  /\ pc = "done" /\ WellFormed(input) /\ DistinctCanon(nodes)
  /\ \E j \in 1..Len(counts) :
       /\ Len(EmittedSeq(j)) >= k + 2
       /\ \E i \in 1..Len(Windows(EmittedSeq(j), k)) :
            \E x \in KmerCounts(nodes, Windows(EmittedSeq(j), k)[i]) :
              x > counts[j]

\* C2: the unitig shrink returns, and so every emitted one, is at least k
\* long and its first and last length-k substrings have exactly the support
\* reported, which is the support of the unitig.
C2_ShrinkBoundary ==
  /\ ret.valid =>
       /\ Len(ret.u) >= k
       /\ WindowCount(supp, SubSeq(ret.u, 1, k)) = ret.c
       /\ WindowCount(supp, SubSeq(ret.u, Len(ret.u) - k + 1, Len(ret.u))) = ret.c
       /\ SuppMin(ret.u, k, supp) = ret.c
  /\ pc \in {"emit", "done"} =>
       \A j \in 1..Len(counts) :
         LET u == EmittedSeq(j)
         IN  /\ Len(u) >= k
             /\ WindowCount(supp, SubSeq(u, 1, k)) = counts[j]
             /\ WindowCount(supp, SubSeq(u, Len(u) - k + 1, Len(u))) = counts[j]
             /\ SuppMin(u, k, supp) = counts[j]

\* C2 witness: shrink has trimmed both extremities of a closure.
C2_Witness ==
  /\ ret.valid
  /\ Len(ret.m) >= Len(ret.u) + 2
  /\ ~contains(SubSeq(ret.m, 1, Len(ret.u)), ret.u)
  /\ ~contains(SubSeq(ret.m, Len(ret.m) - Len(ret.u) + 1, Len(ret.m)), ret.u)

\* C3: on well-formed input the overlap assertion of the concatenation
\* never fires.
C3_NoOverlapPanic == WellFormed(input) => panic # "concat"

\* C3 witness: on well-formed input closure has grown across a link, to the
\* right and to the left.
C3_Witness ==
  /\ WellFormed(input) /\ HasLink(input)
  /\ pc = "clo" /\ Len(joined) >= 3
  /\ RecOf(input, joined[2]) # RecOf(input, joined[1])
  /\ first[1] # joined[1] /\ last[1] # joined[1]

\* C4 (as amended): on scenario E the k-mers ACGTA and GTACG do not overlap
\* by 4, the overlap assertion fires when closure tries to grow across the
\* link, and nothing is emitted.
C4_ScenarioEPanics ==
  input = ScenarioE =>
    /\ fasta = <<>> /\ counts = <<>> /\ closed = <<>>
    /\ pc \in {"close", "seed", "clo", "panic"}
    /\ m \in {<<>>, <<"A", "C", "G", "T", "A">>}
    /\ pc = "panic" => panic = "concat"

\* C4 witness: scenario E has reached the failing assertion.
C4_Witness ==
  input = ScenarioE /\ pc = "panic" /\ panic = "concat" /\ seed = 1

\* C4 (as stated): on scenario E the run ends with ACGTACG, count 7, among
\* its output.
C4_ScenarioEOutput ==
  (input = ScenarioE /\ pc \in {"done", "panic"}) =>
    \E j \in 1..Len(counts) :
      /\ EmittedSeq(j) = <<"A", "C", "G", "T", "A", "C", "G">>
      /\ counts[j] = 7

\* C5: no two emitted unitigs are equal or reverse complements of each other.
C5_UniqueOutputs ==
  \A i, j \in 1..Len(counts) :
    i # j => norm(EmittedSeq(i)) # norm(EmittedSeq(j))

\* C5 witness: two closures have returned the same unitig up to strand, and
\* the output is complete.
C5_Witness ==
  /\ pc = "done"
  /\ ret.n > Len(counts)
  /\ \E i \in 1..Len(counts) :
       UnitigEq(EmittedSeq(i), ret.u) /\ EmittedSeq(i) # ret.u

\* C6: a call of supp on a unitig that is not in the memo returns, its value
\* is the minimum over the length-k substrings of their memoized values (0
\* for a missing one), 0 when the unitig is shorter than k, and the value is
\* stored under the unitig.
C6_SuppContract ==
  (pc \in {"ret", "panic"} /\ ~MapHas(input.memo, input.u)) =>
    LET w    == Windows(input.u, input.kk)
        vals == {IF MapHas(input.memo, w[i]) THEN MapGet(input.memo, w[i])
                 ELSE 0 : i \in 1..Len(w)}
    IN  /\ pc = "ret"
        /\ IF Len(input.u) < input.kk THEN my_supp = 0
           ELSE my_supp \in vals /\ \A x \in vals : my_supp <= x
        /\ MapHas(supp, input.u)
        /\ MapGet(supp, input.u) = my_supp

\* C7: the counts written do not decrease, and each is written together with
\* the unitig it belongs to.
C7_OutputOrder ==
  /\ Len(fasta) = 2 * Len(counts)
  /\ \A j \in 1..(Len(counts) - 1) : counts[j] <= counts[j + 1]
  /\ \A j \in 1..Len(counts) :
       /\ fasta[2 * j - 1] = Header
       /\ \E i \in 1..Len(closed) :
            closed[i].u = EmittedSeq(j) /\ closed[i].c = counts[j]

\* C7 witness: results inserted in descending order of count are written in
\* ascending order.
C7_Witness ==
  /\ pc = "done" /\ Len(counts) >= 2
  /\ counts[1] < counts[Len(counts)]
  /\ closed[1].c > closed[Len(closed)].c

\* C8: during a closure every extension joins a node not joined before and
\* lengthens m by one nucleotide, so a closure over N nodes makes at most
\* N-1 extensions.
C8_ClosureBounded ==
  pc = "clo" =>
    /\ Len(m) = k + Len(joined) - 1
    /\ NoDuplicates(joined)
    /\ Len(joined) - 1 <= Len(nodes) - 1

\* C8 witness: on a cycle, closure has joined every node and the only edge
\* onward leads back into m.
C8_Witness ==
  /\ pc = "clo" /\ Len(nodes) >= 3 /\ Len(joined) = Len(nodes)
  /\ \E j \in 1..Len(nodes[last[1]].out) :
       LET e == nodes[last[1]].out[j]
       IN  /\ e.start = last[2]
           /\ nodes[e.to].count >= my_supp
           /\ e.to = joined[1]

\* C9: when closure returns m with support s, no edge leaving its right end
\* or entering its left end on the matching strand leads to a node of count
\* >= s whose k-mer and complement are both absent from m.
C9_ClosureMaximal ==
  ret.valid =>
    /\ \A j \in 1..Len(nodes[ret.last[1]].out) :
         LET e == nodes[ret.last[1]].out[j]
         IN  ~ /\ e.start = ret.last[2]
               /\ nodes[e.to].count >= ret.s
               /\ ~contains(ret.m, nodes[e.to].kmer)
               /\ ~contains(ret.m, nodes[e.to].complement)
    /\ \A j \in 1..Len(nodes[ret.first[1]].into) :
         LET e == nodes[ret.first[1]].into[j]
         IN  ~ /\ e.start = ret.first[2]
               /\ nodes[e.to].count >= ret.s
               /\ ~contains(ret.m, nodes[e.to].kmer)
               /\ ~contains(ret.m, nodes[e.to].complement)

\* C9 witness: a closure that grew has returned in front of a dip of the
\* support on its right.
C9_Witness ==
  /\ ret.valid /\ Len(ret.m) > k
  /\ \E j \in 1..Len(nodes[ret.last[1]].out) :
       LET e == nodes[ret.last[1]].out[j]
       IN  /\ e.start = ret.last[2]
           /\ nodes[e.to].count < ret.s
           /\ ~contains(ret.m, nodes[e.to].kmer)
           /\ ~contains(ret.m, nodes[e.to].complement)

\* C10: with pairwise distinct canonical k-mers, every node's k-mer lies, on
\* one of the two strands, in an emitted unitig whose count is the node's.
C10_NoKmerLost ==
  (pc = "done" /\ DistinctCanon(nodes)) =>
    \A n \in 1..Len(nodes) :
      \E j \in 1..Len(counts) :
        /\ \/ contains(EmittedSeq(j), nodes[n].kmer)
           \/ contains(EmittedSeq(j), nodes[n].complement)
        /\ counts[j] = nodes[n].count

\* C10 witness: a node skipped as a seed lies in the unitig of another seed,
\* next to a k-mer of higher count that has a unitig of its own.
C10_Witness ==
  /\ pc = "done" /\ DistinctCanon(nodes)
  /\ Len(nodes) = 3 /\ ret.n = 2 /\ Len(counts) = 2
  /\ Len(EmittedSeq(1)) = k + 2

====
